---------------------------- MODULE Spec2Model ----------------------------
(***************************************************************************)
(* conda-tui: a terminal browser of conda environments and their packages. *)
(*                                                                         *)
(*   conda_tui/app.py      get_logo, EnvironmentTree, CondaTUI             *)
(*   conda_tui/package.py  Package, list_packages_for_environment          *)
(*                                                                         *)
(* Four specifications over one set of variables:                          *)
(*   Spec      the application shell: tree clicks, the h and q keys        *)
(*   SpecTree  EnvironmentTree.render_node and its memoized render_label   *)
(*   SpecList  list_packages_for_environment over arbitrary stores         *)
(*   SpecPkg   one Package view-model: status, update_available,           *)
(*             description                                                 *)
(***************************************************************************)
EXTENDS Integers, Sequences, FiniteSets

VARIABLES
    \* ---- application shell (CondaTUI) and the process-wide caches
    envs,        \* what list_environments() returned at mount, in order
    expanded,    \* TreeNode.expanded of every node (0 is the root)
    pane,        \* the widget package_list (the right pane) shows
    pkgCache,    \* functools.cache of list_packages_for_environment
    storeReads,  \* per prefix: how often PrefixData.iter_records scanned it
    logoCache,   \* lru_cache of get_logo: <<>> or <<the Text object>>
    logoLoads,   \* how often the logo file was opened
    appState,    \* "running", "quit" or "crashed" (uncaught exception)
    nextId,      \* identity of the next object allocated
    lastEvent,   \* the event the last handler served, and what it did
    \* ---- EnvironmentTree rendering
    hover_node,  \* TreeControl.hover_node (NoNode: None)
    cursor,      \* the node whose is_cursor is True (NoNode: none)
    has_focus,   \* EnvironmentTree.has_focus
    labelCache,  \* lru_cache of render_label
    renders,     \* how many render_node calls were made
    \* ---- list_packages_for_environment on its own
    store,       \* the records PrefixData.iter_records yields, in store order
    listing,     \* <<>> or <<the returned list>>
    \* ---- one Package
    pkg,         \* its _record, _update_available and cached description
    iconCache,   \* functools.cache of _get_update_status_icon
    lastStatus,  \* <<>> or <<what the last read of status returned>>
    lastDescription  \* what the last read of description did

appVars  == <<envs, expanded, pane, pkgCache, storeReads, logoCache, logoLoads,
              appState, nextId, lastEvent>>
treeVars == <<hover_node, cursor, has_focus, labelCache, renders>>
listVars == <<store, listing>>
pkgVars  == <<pkg, iconCache, lastStatus, lastDescription>>
vars     == <<appVars, treeVars, listVars, pkgVars>>

---------------------------------------------------------------------------
(* Bounds of the model *)

\* most environments the catalog discovers
MaxEnvs == 2
\* most records in a store drawn for SpecList
MaxRecords == 3
\* most render_node calls in one behaviour of SpecTree
MaxRenders == 2

---------------------------------------------------------------------------
(* Strings as Python compares them: sequences of code points *)

\* "B" < "a" < "ab" < "b"
Names == { <<66>>, <<97>>, <<97, 98>>, <<98>> }

RECURSIVE StrLess(_, _)
StrLess(a, b) ==
    IF b = <<>> THEN FALSE
    ELSE IF a = <<>> THEN TRUE
    ELSE IF Head(a) # Head(b) THEN Head(a) < Head(b)
    ELSE StrLess(Tail(a), Tail(b))

StrLeq(a, b) == a = b \/ StrLess(a, b)

---------------------------------------------------------------------------
(* Environment (conda_tui.environment): a value with name, path and rpath; *)
(* equal when these are equal.  Environment() has none of them.            *)

RootEnv == [name |-> "", path |-> "", rpath |-> ""]

BaseEnv    == [name |-> "base", path |-> "/opt/conda", rpath |-> "/opt/conda"]
ScratchEnv == [name |-> "", path |-> "/home/u/envs/scratch", rpath |-> "~/envs/scratch"]
BrokenEnv  == [name |-> "broken", path |-> "/srv/broken", rpath |-> "/srv/broken"]

\* the environments list_environments() can discover on this host
Discoverable == {BaseEnv, ScratchEnv, BrokenEnv}

Prefixes == {e.path : e \in Discoverable \cup {RootEnv}}

Rec(n, v) == [name |-> n, version |-> v]

\* the metadata store under each prefix: unreadable (PrefixData raises when a
\* conda-meta record is corrupt), or its records in the order iter_records
\* yields them
Store(prefix) ==
    CASE prefix = "/opt/conda" ->
           [readable |-> TRUE,
            records |-> << Rec(<<98>>, "1.0"), Rec(<<66>>, "2.1"), Rec(<<97>>, "0.9") >>]
      [] prefix = "/home/u/envs/scratch" ->
           [readable |-> TRUE, records |-> << >>]
      [] OTHER ->
           [readable |-> FALSE, records |-> << >>]

---------------------------------------------------------------------------
(* conda_tui/package.py: Package and list_packages_for_environment *)

\* Package.__init__: wraps the record; _update_available is random.random() > 0.8
NewPackage(record, flag) == [record |-> record, update_available |-> flag]

\* the sort key lambda x: x.name, compared as sorted() compares it
KeyLeqDescending(p, q) == StrLeq(q.record.name, p.record.name)
KeyLeq(p, q) == StrLeq(p.record.name, q.record.name)

\* sorted() is stable: an element goes after every element not greater than it
RECURSIVE InsertByName(_, _)
InsertByName(done, p) ==
    IF done = << >> THEN << p >>
    ELSE IF KeyLeq(Head(done), p)
         THEN << Head(done) >> \o InsertByName(Tail(done), p)
         ELSE << p >> \o done

RECURSIVE SortedByName(_)
SortedByName(ps) ==
    IF ps = << >> THEN << >>
    ELSE InsertByName(SortedByName(SubSeq(ps, 1, Len(ps) - 1)), ps[Len(ps)])

\* the body of list_packages_for_environment once the store has been read:
\* one Package per record, sorted by name
ListPackages(records, flags) ==
    SortedByName([i \in 1..Len(records) |-> NewPackage(records[i], flags[i])])

\* @cache: a hit when an equal Environment was listed before
CacheNever(cache, env) == FALSE
CacheHit(cache, env) == env \in DOMAIN cache

\* @cache stores what the function returned under the Environment
CachePut(cache, env, obj) ==
    [e \in DOMAIN cache \cup {env} |-> IF e = env THEN obj ELSE cache[e]]

---------------------------------------------------------------------------
(* conda_tui/app.py: the tree's nodes *)

NoNode == -1
Root == 0
Nodes == 0..Len(envs)

\* EnvironmentTree.__init__ gives the root Environment(); on_mount adds one
\* node per discovered environment
NodeEnv(n) == IF n = Root THEN RootEnv ELSE envs[n]

\* the label on_mount gives a node: env.name or env.path; the root's is "envs"
NodeLabel(n) ==
    IF n = Root THEN "envs"
    ELSE IF envs[n].name # "" THEN envs[n].name ELSE envs[n].path

---------------------------------------------------------------------------
(* conda_tui/app.py: CondaTUI *)

\* get_logo under lru_cache: the file is read on the first call only
LogoUncached(cache) == FALSE
LogoCached(cache) == cache # << >>

Logo(obj) == [kind |-> "logo", obj |-> obj, items |-> << >>]
\* PackageTableWidget(packages) over the list object the lister returned
PackageTable(list) == [kind |-> "table", obj |-> list.id, items |-> list.items]

\* handle_tree_click's test: if not message.node.data.path: return
AlwaysHasPath(env) == TRUE
HasPath(env) == env.path # ""

Event(kind, n, listed, result) ==
    [kind |-> kind, node |-> n, listed |-> listed, result |-> result,
     paneBefore |-> pane.kind]

\* what handle_tree_click leaves of the nodes' expanded flags when it returns
ExpandedTogglingRoot(n) ==
    IF HasPath(NodeEnv(n)) THEN [expanded EXCEPT ![n] = TRUE]
    ELSE [expanded EXCEPT ![n] = ~expanded[n]]
ExpandedAfterClick(n) ==
    IF HasPath(NodeEnv(n)) THEN [expanded EXCEPT ![n] = TRUE] ELSE expanded

\* CondaTUI.handle_tree_click with show_package_table and
\* list_packages_for_environment inlined
handle_tree_click(n) ==
    /\ appState = "running"
    /\ LET env == NodeEnv(n) IN
       IF ~HasPath(env) THEN
            \* the root: return
            /\ lastEvent' = Event("click", n, FALSE, 0)
            /\ expanded' = ExpandedAfterClick(n)
            /\ UNCHANGED <<envs, pane, pkgCache, storeReads, logoCache,
                           logoLoads, appState, nextId>>
       ELSE IF CacheHit(pkgCache, env) THEN
            \* the cached list object, a new table over it, then expand
            /\ pane' = PackageTable(pkgCache[env])
            /\ expanded' = ExpandedAfterClick(n)
            /\ lastEvent' = Event("click", n, TRUE, pkgCache[env].id)
            /\ UNCHANGED <<envs, pkgCache, storeReads, logoCache, logoLoads,
                           appState, nextId>>
       ELSE IF ~Store(env.path).readable THEN
            \* PrefixData raises; nothing catches it on the way out of the
            \* handler, nothing is cached, the pane and the node are untouched
            /\ storeReads' = [storeReads EXCEPT ![env.path] = @ + 1]
            /\ appState' = "crashed"
            /\ lastEvent' = Event("click", n, TRUE, 0)
            /\ UNCHANGED <<envs, expanded, pane, pkgCache, logoCache,
                           logoLoads, nextId>>
       ELSE
            \E flags \in [1..Len(Store(env.path).records) -> BOOLEAN] :
                LET list == [id |-> nextId,
                             items |-> ListPackages(Store(env.path).records, flags)]
                IN  /\ storeReads' = [storeReads EXCEPT ![env.path] = @ + 1]
                    /\ pkgCache' = CachePut(pkgCache, env, list)
                    /\ nextId' = nextId + 1
                    /\ pane' = PackageTable(list)
                    /\ expanded' = ExpandedAfterClick(n)
                    /\ lastEvent' = Event("click", n, TRUE, list.id)
                    /\ UNCHANGED <<envs, logoCache, logoLoads, appState>>

\* CondaTUI.action_display_logo, bound to h: package_list.update(get_logo())
action_display_logo ==
    /\ appState = "running"
    /\ IF LogoCached(logoCache)
       THEN /\ pane' = Logo(logoCache[1])
            /\ UNCHANGED <<logoCache, logoLoads, nextId>>
       ELSE /\ pane' = Logo(nextId)
            /\ logoCache' = << nextId >>
            /\ logoLoads' = logoLoads + 1
            /\ nextId' = nextId + 1
    /\ lastEvent' = Event("h", NoNode, FALSE, 0)
    /\ UNCHANGED <<envs, expanded, pkgCache, storeReads, appState>>

\* q is bound to the framework's quit action
action_quit ==
    /\ appState = "running"
    /\ appState' = "quit"
    /\ lastEvent' = Event("q", NoNode, FALSE, 0)
    /\ UNCHANGED <<envs, expanded, pane, pkgCache, storeReads, logoCache,
                   logoLoads, nextId>>

\* the variables the other specifications use, at rest
TreeIdle == /\ hover_node = NoNode /\ cursor = NoNode /\ has_focus = FALSE
            /\ labelCache = << >> /\ renders = 0
ListIdle == store = << >> /\ listing = << >>
PkgIdle  == /\ pkg = << >> /\ iconCache = << >> /\ lastStatus = << >>
            /\ lastDescription = << >>

\* the catalogs list_environments() can return
Catalogs == UNION {[1..k -> Discoverable] : k \in 0..MaxEnvs}

\* CondaTUI as constructed, before on_mount ran: no package_list yet, the
\* tree holds its root only (a TreeNode starts collapsed), nothing is cached
ConstructedApp ==
    /\ envs = << >>
    /\ expanded = [n \in {Root} |-> FALSE]
    /\ logoCache = << >>
    /\ logoLoads = 0
    /\ pane = [kind |-> "none", obj |-> 0, items |-> << >>]
    /\ nextId = 1
    /\ pkgCache = << >>
    /\ storeReads = [p \in Prefixes |-> 0]
    /\ appState = "loading"
    /\ lastEvent = [kind |-> "none", node |-> NoNode, listed |-> FALSE,
                    result |-> 0, paneBefore |-> "none"]

\* CondaTUI.on_mount: self.package_list = ScrollView(get_logo())
app_on_mount ==
    /\ appState = "loading"
    /\ appState' = "mounting"
    /\ IF LogoCached(logoCache)
       THEN /\ pane' = Logo(logoCache[1])
            /\ UNCHANGED <<logoCache, logoLoads, nextId>>
       ELSE /\ pane' = Logo(nextId)
            /\ logoCache' = << nextId >>
            /\ logoLoads' = logoLoads + 1
            /\ nextId' = nextId + 1
    /\ lastEvent' = Event("mount", NoNode, FALSE, 0)
    /\ UNCHANGED <<envs, expanded, pkgCache, storeReads>>

\* EnvironmentTree.on_mount: one node per environment of list_environments(),
\* each collapsed, then root.expand()
tree_on_mount ==
    /\ appState = "mounting"
    /\ appState' = "running"
    /\ \E catalog \in Catalogs :
          /\ envs' = catalog
          /\ expanded' = [n \in 0..Len(catalog) |-> n = Root]
    /\ lastEvent' = Event("mount", NoNode, FALSE, 0)
    /\ UNCHANGED <<pane, pkgCache, storeReads, logoCache, logoLoads, nextId>>

Init == ConstructedApp /\ TreeIdle /\ ListIdle /\ PkgIdle

Next ==
    \/ app_on_mount /\ UNCHANGED <<treeVars, listVars, pkgVars>>
    \/ tree_on_mount /\ UNCHANGED <<treeVars, listVars, pkgVars>>
    \/ \E n \in Nodes : handle_tree_click(n) /\ UNCHANGED <<treeVars, listVars, pkgVars>>
    \/ action_display_logo /\ UNCHANGED <<treeVars, listVars, pkgVars>>
    \/ action_quit /\ UNCHANGED <<treeVars, listVars, pkgVars>>

Spec == Init /\ [][Next]_vars

---------------------------------------------------------------------------
(* Claims about the application shell, under Spec *)

\* the step is handle_tree_click on a node whose Environment has no path
RootClickStep == lastEvent'.kind = "click" /\ NodeEnv(lastEvent'.node).path = ""

\* C1: a click on a node whose Environment has no path (the root) never calls
\* list_packages_for_environment and never changes what the right pane shows.
C1_RootClickListsNothing ==
    [][RootClickStep =>
          /\ lastEvent'.listed = FALSE
          /\ storeReads' = storeReads
          /\ pkgCache' = pkgCache
          /\ pane' = pane]_vars

\* the root was clicked while a package table was on show, and the table stayed
C1_Witness ==
    /\ lastEvent.kind = "click"
    /\ lastEvent.node = Root
    /\ lastEvent.paneBefore = "table"
    /\ pane.kind = "table"

C3_StoreReadAtMostOnce ==
    /\ [](\A p \in Prefixes : storeReads[p] <= 1)
    /\ [][\A e \in DOMAIN pkgCache :
              e \in DOMAIN pkgCache' /\ pkgCache'[e] = pkgCache[e]]_vars
    /\ []((lastEvent.kind = "click" /\ lastEvent.result # 0) =>
              /\ NodeEnv(lastEvent.node) \in DOMAIN pkgCache
              /\ pkgCache[NodeEnv(lastEvent.node)].id = lastEvent.result)

\* two nodes carry equal Environments, both were selected, one read was made
C3_Witness ==
    \E m \in Nodes, n \in Nodes :
        /\ m # Root /\ n # Root /\ m # n
        /\ NodeEnv(m) = NodeEnv(n)
        /\ expanded[m] /\ expanded[n]
        /\ storeReads[NodeEnv(m).path] = 1
        /\ lastEvent.kind = "click" /\ lastEvent.node = n
        /\ pane = PackageTable(pkgCache[NodeEnv(m)])

\* C5: a store that cannot be opened is reported to the caller, and the
\* selection handler ends with the application running and the right pane
\* showing an empty table or an error indicator.
C5_UnreadableIsHandled ==
    (/\ lastEvent.kind = "click"
     /\ lastEvent.listed
     /\ ~Store(NodeEnv(lastEvent.node).path).readable)
    => /\ appState = "running"
       /\ \/ pane.kind = "error"
          \/ pane.kind = "table" /\ pane.items = << >>

\* C7: a selection of a node with a path lists that node's environment, puts
\* the table over the result in the right pane and expands the node; so the
\* pane shows the table of the most recently selected environment.
C7_SelectionShowsTable ==
    (lastEvent.kind = "click" /\ NodeEnv(lastEvent.node).path # "")
    => /\ lastEvent.listed
       /\ NodeEnv(lastEvent.node) \in DOMAIN pkgCache
       /\ pane = PackageTable(pkgCache[NodeEnv(lastEvent.node)])
       /\ pane.obj = lastEvent.result
       /\ expanded[lastEvent.node]

\* C8: the pane shows the logo after mount and after every h; the logo file is
\* loaded once and every get_logo call returns that one object; and once the
\* logo replaced a table, only a selection of a node with a path brings a
\* table back.
C8_LogoOnH ==
    /\ [](lastEvent.kind \in {"mount", "h"} => pane.kind = "logo")
    /\ [](logoLoads <= 1 /\ (pane.kind = "logo" => logoCache = << pane.obj >>))
    /\ [][logoCache # << >> => logoCache' = logoCache]_vars
    /\ [][(pane.kind = "logo" /\ pane'.kind = "table") =>
             (lastEvent'.kind = "click" /\ NodeEnv(lastEvent'.node).path # "")]_vars

\* h was pressed while a table was on show
C8_Witness ==
    /\ lastEvent.kind = "h"
    /\ lastEvent.paneBefore = "table"
    /\ pane.kind = "logo"
    /\ pkgCache # << >>

---------------------------------------------------------------------------
(* SpecList: list_packages_for_environment over every small store *)

Versions == {"1.0", "2.1"}
Records == {Rec(n, v) : n \in Names, v \in Versions}

\* the stores a prefix can hold: every sequence of at most MaxRecords records
Stores == UNION {[1..k -> Records] : k \in 0..MaxRecords}

ListInit == ConstructedApp /\ TreeIdle /\ PkgIdle /\ store \in Stores /\ listing = << >>

\* list_packages_for_environment, first call for the environment: the store is
\* read, each record wrapped, the packages sorted, the list returned and cached
list_packages_for_environment ==
    /\ listing = << >>
    /\ \E flags \in [1..Len(store) -> BOOLEAN] :
          listing' = << ListPackages(store, flags) >>
    /\ UNCHANGED store

\* a later call: @cache returns the list of the first
list_packages_cached ==
    /\ listing # << >>
    /\ UNCHANGED <<store, listing>>

ListNext ==
    \/ list_packages_for_environment /\ UNCHANGED <<appVars, treeVars, pkgVars>>
    \/ list_packages_cached /\ UNCHANGED <<appVars, treeVars, pkgVars>>

SpecList == ListInit /\ [][ListNext]_vars

\* how many elements of seq f maps to x
Count(seq, f(_), x) == Cardinality({i \in 1..Len(seq) : f(seq[i]) = x})
SameRecord(r) == r
RecordOf(p) == p.record

\* C6: the returned sequence holds exactly one Package per record of the store,
\* is ordered by name ascending, and sorting it again by name changes nothing.
C6_ListedSortedByName ==
    listing # << >> =>
        LET result == listing[1] IN
        /\ Len(result) = Len(store)
        /\ \A r \in Records :
              Count(result, RecordOf, r) = Count(store, SameRecord, r)
        /\ \A i \in 1..(Len(result) - 1) :
              StrLeq(result[i].record.name, result[i + 1].record.name)
        /\ SortedByName(result) = result

\* a store out of order that holds one name twice has been listed
C6_Witness ==
    /\ listing # << >>
    /\ Len(store) >= 3
    /\ \E i, j \in 1..Len(store) : i < j /\ StrLess(store[j].name, store[i].name)
    /\ \E i, j \in 1..Len(store) :
          i < j /\ store[i].name = store[j].name /\ store[i] # store[j]

---------------------------------------------------------------------------
(* SpecPkg: one Package *)

\* what lies beside the package on disk: whether the record has an
\* extracted_package_dir, whether info/about.json exists in it, and its text
Sidecar(hasDir, hasFile, content) ==
    [hasDir |-> hasDir, hasFile |-> hasFile, content |-> content]

Sidecars ==
    { Sidecar(FALSE, FALSE, ""),
      Sidecar(TRUE, FALSE, ""),
      Sidecar(TRUE, TRUE, "{"),
      Sidecar(TRUE, TRUE, "{}"),
      Sidecar(TRUE, TRUE, "{\"summary\": \"a compression library\"}") }

\* json.load on the texts above: a dict, or JSONDecodeError
JsonLoad(content) ==
    CASE content = "{}" -> [ok |-> TRUE, summary |-> << >>]
      [] content = "{\"summary\": \"a compression library\"}" ->
            [ok |-> TRUE, summary |-> << "a compression library" >>]
      [] OTHER -> [ok |-> FALSE, summary |-> << >>]

PkgInit ==
    /\ ConstructedApp /\ TreeIdle /\ ListIdle
    /\ \E r \in Records, sc \in Sidecars, flag \in BOOLEAN :
          pkg = [record |-> r, about |-> sc, update_available |-> flag,
                 description |-> << >>]
    /\ iconCache = << >>
    /\ lastStatus = << >>
    /\ lastDescription = [outcome |-> "unread", value |-> ""]

\* Package._get_update_status_icon: the glyph for the flag
Icon(update_available) ==
    IF update_available
    THEN [glyph |-> "UPWARDS ARROW", style |-> "bold #DB6015"]
    ELSE [glyph |-> "HEAVY CHECK MARK", style |-> "bold #43b049"]

\* Package._get_update_status_icon under @cache, keyed by its argument
FirstCachedIcon(cache, update_available) ==
    IF DOMAIN cache # {} THEN cache[CHOOSE k \in DOMAIN cache : TRUE]
    ELSE Icon(update_available)
CachedIcon(cache, update_available) ==
    IF update_available \in DOMAIN cache THEN cache[update_available]
    ELSE Icon(update_available)

\* Package.status: the icon, a space, the record's version
StatusText(icon, version) == << icon, " ", version >>

\* a read of Package.status
status ==
    LET flag == pkg.update_available
        icon == CachedIcon(iconCache, flag)
    IN  /\ iconCache' = [b \in DOMAIN iconCache \cup {flag} |->
                            IF b = flag THEN icon ELSE iconCache[b]]
        /\ lastStatus' = << [flag |-> flag,
                             text |-> StatusText(icon, pkg.record.version)] >>
        /\ UNCHANGED <<pkg, lastDescription>>

\* the setter of Package.update_available
set_update_available(value) ==
    /\ pkg' = [pkg EXCEPT !.update_available = value]
    /\ UNCHANGED <<iconCache, lastStatus, lastDescription>>

\* a read of Package.description, a cached_property: what the getter returned
\* is kept on the instance; an exception leaves nothing cached
description ==
    IF pkg.description # << >> THEN
        /\ lastDescription' = [outcome |-> "returned", value |-> pkg.description[1]]
        /\ UNCHANGED <<pkg, iconCache, lastStatus>>
    ELSE IF ~pkg.about.hasDir \/ ~pkg.about.hasFile THEN
        \* AttributeError caught, or info_path.exists() is false: return ""
        /\ pkg' = [pkg EXCEPT !.description = << "" >>]
        /\ lastDescription' = [outcome |-> "returned", value |-> ""]
        /\ UNCHANGED <<iconCache, lastStatus>>
    ELSE IF ~JsonLoad(pkg.about.content).ok THEN
        \* json.load raises JSONDecodeError, which nothing here catches
        /\ lastDescription' = [outcome |-> "raised", value |-> "JSONDecodeError"]
        /\ UNCHANGED <<pkg, iconCache, lastStatus>>
    ELSE
        \* .get("summary", "")
        LET summary == JsonLoad(pkg.about.content).summary
            value == IF summary = << >> THEN "" ELSE summary[1]
        IN  /\ pkg' = [pkg EXCEPT !.description = << value >>]
            /\ lastDescription' = [outcome |-> "returned", value |-> value]
            /\ UNCHANGED <<iconCache, lastStatus>>

PkgNext ==
    \/ status /\ UNCHANGED <<appVars, treeVars, listVars>>
    \/ \E value \in BOOLEAN :
          set_update_available(value) /\ UNCHANGED <<appVars, treeVars, listVars>>
    \/ description /\ UNCHANGED <<appVars, treeVars, listVars>>

SpecPkg == PkgInit /\ [][PkgNext]_vars

\* C4: Package.description never raises, and returns "" when the record has
\* no extracted package directory, when info/about.json is absent, and when
\* its content is malformed JSON.
C4_DescriptionNeverRaises ==
    /\ lastDescription.outcome # "raised"
    /\ (/\ lastDescription.outcome # "unread"
        /\ \/ ~pkg.about.hasDir
           \/ ~pkg.about.hasFile
           \/ ~JsonLoad(pkg.about.content).ok)
       => (lastDescription.outcome = "returned" /\ lastDescription.value = "")

\* C9: whatever was assigned to update_available before, status is the "up"
\* glyph and the version when the flag is True at the read and the "check"
\* glyph and the version when it is False; the memoized glyph function holds
\* the right glyph under each boolean.
C9_StatusFollowsFlag ==
    LET expected(flag) ==
            << [glyph |-> IF flag THEN "UPWARDS ARROW" ELSE "HEAVY CHECK MARK",
                style |-> IF flag THEN "bold #DB6015" ELSE "bold #43b049"],
               " ", pkg.record.version >>
    IN  /\ lastStatus # << >> => lastStatus[1].text = expected(lastStatus[1].flag)
        /\ \A b \in DOMAIN iconCache : iconCache[b].glyph = expected(b)[1].glyph
        /\ StatusText(CachedIcon(iconCache, pkg.update_available),
                      pkg.record.version) = expected(pkg.update_available)

\* status was read under both flags, last under True after an assignment
C9_Witness ==
    /\ DOMAIN iconCache = BOOLEAN
    /\ lastStatus # << >>
    /\ lastStatus[1].flag = TRUE
    /\ lastStatus[1].text[1].glyph = "UPWARDS ARROW"
    /\ pkg.update_available = FALSE

---------------------------------------------------------------------------
(* SpecTree: EnvironmentTree.render_node and render_label *)

\* Python's a or b on strings
Or(a, b) == IF a # "" THEN a ELSE b

\* the body of render_label: the icon by expanded, the text by hover, bold
\* when hovered, and the meta with the node's id and node.is_cursor
render_label(n, isExpanded, is_cursor, is_hover, focus) ==
    [icon |-> IF isExpanded THEN "BLACK CIRCLE" ELSE "WHITE CIRCLE",
     text |-> Or(IF is_hover THEN NodeEnv(n).rpath
                 ELSE Or(NodeEnv(n).name, NodeEnv(n).rpath),
                 NodeLabel(n)),
     bold |-> is_hover,
     meta |-> [tree_node |-> n, cursor |-> (cursor = n)]]

\* the key lru_cache files a render_label call under: its arguments
KeyWithoutNode(n, isExpanded, is_cursor, is_hover, focus) ==
    << Root, isExpanded, is_cursor, is_hover, focus >>
LabelKey(n, isExpanded, is_cursor, is_hover, focus) ==
    << n, isExpanded, is_cursor, is_hover, focus >>

\* the arguments render_node passes for a node in the current state
NodeKey(n) == LabelKey(n, expanded[n], cursor = n, hover_node = n, has_focus)

\* what render_node(n) returns in the current state: the cached label when the
\* key is cached, else a fresh render_label
RenderNodeValue(n) ==
    IF NodeKey(n) \in DOMAIN labelCache THEN labelCache[NodeKey(n)]
    ELSE render_label(n, expanded[n], cursor = n, hover_node = n, has_focus)

\* EnvironmentTree.render_node: the label is returned and kept in the cache
render_node(n) ==
    /\ renders < MaxRenders
    /\ renders' = renders + 1
    /\ labelCache' = [k \in DOMAIN labelCache \cup {NodeKey(n)} |->
                         IF k = NodeKey(n) THEN RenderNodeValue(n) ELSE labelCache[k]]
    /\ UNCHANGED <<hover_node, cursor, has_focus, appVars>>

\* EnvironmentTree.on_focus and on_blur
on_focus ==
    /\ has_focus' = TRUE
    /\ UNCHANGED <<hover_node, cursor, labelCache, renders, appVars>>

on_blur ==
    /\ has_focus' = FALSE
    /\ UNCHANGED <<hover_node, cursor, labelCache, renders, appVars>>

\* the pointer moves onto a node's label or off the labels: render_node reads
\* the result as node.id == self.hover_node
set_hover(n) ==
    /\ hover_node' = n
    /\ UNCHANGED <<cursor, has_focus, labelCache, renders, appVars>>

\* the cursor moves to a node or is hidden: render_node reads node.is_cursor
set_cursor(n) ==
    /\ cursor' = n
    /\ UNCHANGED <<hover_node, has_focus, labelCache, renders, appVars>>

\* TreeNode.expand(expanded): render_node reads node.expanded.  The
\* application itself only ever expands; collapsing is the framework's.
node_expand(n, value) ==
    /\ expanded' = [expanded EXCEPT ![n] = value]
    /\ UNCHANGED <<envs, pane, pkgCache, storeReads, logoCache, logoLoads,
                   appState, nextId, lastEvent, treeVars>>

\* a mounted tree of the root and one environment, with a name or without
TreeInit ==
    /\ \E e \in {BaseEnv, ScratchEnv} : envs = << e >>
    /\ expanded = [n \in Nodes |-> n = Root]
    /\ logoCache = << 1 >>
    /\ logoLoads = 1
    /\ pane = Logo(1)
    /\ nextId = 2
    /\ pkgCache = << >>
    /\ storeReads = [p \in Prefixes |-> 0]
    /\ appState = "running"
    /\ lastEvent = [kind |-> "mount", node |-> NoNode, listed |-> FALSE,
                    result |-> 0, paneBefore |-> "logo"]
    /\ TreeIdle /\ ListIdle /\ PkgIdle

TreeNext ==
    \/ \E n \in Nodes : render_node(n) /\ UNCHANGED <<listVars, pkgVars>>
    \/ on_focus /\ UNCHANGED <<listVars, pkgVars>>
    \/ on_blur /\ UNCHANGED <<listVars, pkgVars>>
    \/ \E n \in Nodes \cup {NoNode} : set_hover(n) /\ UNCHANGED <<listVars, pkgVars>>
    \/ \E n \in Nodes \cup {NoNode} : set_cursor(n) /\ UNCHANGED <<listVars, pkgVars>>
    \/ \E n \in Nodes, value \in BOOLEAN :
          node_expand(n, value) /\ UNCHANGED <<listVars, pkgVars>>

SpecTree == TreeInit /\ [][TreeNext]_vars

\* the label of a key, by the rule as stated: hovered shows rpath
StatedLabel(key) ==
    LET n == key[1] env == NodeEnv(key[1]) IN
    [icon |-> IF key[2] THEN "BLACK CIRCLE" ELSE "WHITE CIRCLE",
     text |-> IF key[4] THEN env.rpath
              ELSE IF env.name # "" THEN env.name
              ELSE IF env.rpath # "" THEN env.rpath
              ELSE NodeLabel(n),
     bold |-> key[4]]

\* the label of a key, by the rule as amended: hovered shows rpath, or the
\* raw label when the Environment has no rpath
AmendedLabel(key) ==
    LET n == key[1] env == NodeEnv(key[1]) IN
    [icon |-> IF key[2] THEN "BLACK CIRCLE" ELSE "WHITE CIRCLE",
     text |-> IF key[4] THEN (IF env.rpath # "" THEN env.rpath ELSE NodeLabel(n))
              ELSE IF env.name # "" THEN env.name
              ELSE IF env.rpath # "" THEN env.rpath
              ELSE NodeLabel(n),
     bold |-> key[4]]

Shown(label) == [icon |-> label.icon, text |-> label.text, bold |-> label.bold]

CurrentKey(n) == << n, expanded[n], cursor = n, hover_node = n, has_focus >>

\* C10 as stated: what render_node returns for a node is the stated rule
\* applied to the node's current state, whatever was rendered before.
C10_LabelByStatedRule ==
    /\ \A n \in Nodes : Shown(RenderNodeValue(n)) = StatedLabel(CurrentKey(n))
    /\ \A k \in DOMAIN labelCache : Shown(labelCache[k]) = StatedLabel(k)

\* C10 as amended: the same with the raw label shown for a hovered node whose
\* Environment has no rpath; the label's meta names the node itself.
C10_LabelByAmendedRule ==
    /\ \A n \in Nodes :
          /\ Shown(RenderNodeValue(n)) = AmendedLabel(CurrentKey(n))
          /\ RenderNodeValue(n).meta.tree_node = n
    /\ \A k \in DOMAIN labelCache :
          /\ Shown(labelCache[k]) = AmendedLabel(k)
          /\ labelCache[k].meta.tree_node = k[1]

\* the hovered root was rendered after the environment node, and the
\* environment node is now in the state the root was rendered in
C10_Witness ==
    /\ renders = 2
    /\ \E k \in DOMAIN labelCache : k[1] = Root /\ k[4]
    /\ \E k \in DOMAIN labelCache : k[1] # Root /\ ~k[4]
    /\ hover_node = 1
    /\ << Root, expanded[1], cursor = 1, TRUE, has_focus >> \in DOMAIN labelCache

===========================================================================
